---- MODULE Spec2Model ----
(***************************************************************************)
(* A model of two components of snarkVM:                                   *)
(*                                                                         *)
(*  - the verifier rounds of the Marlin AHP                                *)
(*    (algorithms/src/snark/marlin/ahp/verifier/verifier.rs), checked      *)
(*    under SpecVerifier;                                                  *)
(*  - the batch Trace of the synthesizer                                   *)
(*    (synthesizer/src/process/trace/mod.rs), checked under SpecTrace.     *)
(*                                                                         *)
(* The two components share no state.  An Option<T> of the source is a     *)
(* sequence of length 0 (None) or 1 (Some(v)).                             *)
(***************************************************************************)
EXTENDS Integers, Sequences, FiniteSets, TLC

VARIABLES
    \* ---- AHP verifier session ----
    vstate,      \* Option<State>: the State value threaded through the rounds
    fs_pos,      \* number of field elements extracted from the transcript so far
    aborted,     \* an assert! of a round has failed: the process has aborted
    vlast,       \* the last verifier call: its arguments and what it returned
    \* ---- Trace ----
    transitions,            \* Vec<Transition>
    transition_tasks,       \* HashMap<Locator, (ProvingKey, Vec<Assignment>)>
    inclusion_tasks,        \* Inclusion accumulator: the transitions forwarded to it
    inclusion_assignments,  \* OnceCell<Vec<InclusionAssignment>>
    global_state_root,      \* OnceCell<StateRoot>
    tlast,                  \* the last Trace call: its arguments and what it returned
    selected_fee            \* history, not a field: Some(b) once a prepare has filled
                            \* inclusion_assignments, b whether it took the fee path

vvars == <<vstate, fs_pos, aborted, vlast>>
tvars == <<transitions, transition_tasks, inclusion_tasks, inclusion_assignments,
           global_state_root, tlast, selected_fee>>
vars == <<vstate, fs_pos, aborted, vlast, transitions, transition_tasks, inclusion_tasks,
          inclusion_assignments, global_state_root, tlast, selected_fee>>

None == <<>>
Some(v) == <<v>>
IsSome(o) == o # <<>>
Unwrap(o) == o[1]

(***************************************************************************)
(* Bounds of the model.                                                    *)
(***************************************************************************)
\* num_constraints and num_variables range over 1..MaxConstraints
MaxConstraints == 2
\* num_non_zero_a/b/c and num_public_inputs range over 1..MaxNonZero
MaxNonZero == 2
\* a circuit of a batch has 0..MaxInstances instances
MaxInstances == 2
\* at most MaxLaterElements field elements are extracted after round 1
MaxLaterElements == 5

(***************************************************************************)
(* The target field and the evaluation domains (external algebra).         *)
(***************************************************************************)
\* TargetField: the prime field with two elements.
Field == 0..1
FieldModulus == Cardinality(Field)
\* TargetField::one()
One == 1

RECURSIVE Pow(_, _)
Pow(x, n) == IF n = 0 THEN 1 ELSE (x * Pow(x, n - 1)) % FieldModulus

RECURSIVE NextPowerOfTwo(_, _)
NextPowerOfTwo(n, p) == IF p >= n THEN p ELSE NextPowerOfTwo(n, 2 * p)

\* EvaluationDomain::new(n): the multiplicative subgroup whose order is the least
\* power of two >= n, None when the field has no subgroup of that order.
EvaluationDomainNew(n) ==
    LET size == NextPowerOfTwo(n, 1)
    IN  IF (FieldModulus - 1) % size = 0 THEN Some(size) ELSE None

\* domain.evaluate_vanishing_polynomial(x) = x^size - 1
EvaluateVanishingPolynomial(domain, x) == (Pow(x, domain) - 1) % FieldModulus

IsZero(x) == x = 0

(***************************************************************************)
(* Inputs of the verifier rounds.                                          *)
(***************************************************************************)
Circuits == {1, 2}

CircuitInfos ==
    [num_constraints : 1..MaxConstraints, num_variables : 1..MaxConstraints,
     num_non_zero_a : 1..MaxNonZero, num_non_zero_b : 1..MaxNonZero,
     num_non_zero_c : 1..MaxNonZero, num_public_inputs : 1..MaxNonZero]

\* BTreeMap<&Circuit, usize>: a function from the circuits of the batch to instance counts
BatchSizes == UNION {[cs -> 0..MaxInstances] : cs \in SUBSET Circuits}

\* The elements the transcript yields for a call that extracts n of them.
Tapes(n) == [1..n -> Field]

\* fs_rng.squeeze_nonnative_field_elements(n), on a transcript that has yielded
\* pos elements of tape: the next n elements.
Squeeze(tape, pos, n) == SubSeq(tape, pos + 1, pos + n)

\* Iteration order of a BTreeMap: its keys, ascending.
RECURSIVE CanonicalOrder(_)
CanonicalOrder(keys) ==
    IF keys = {} THEN <<>>
    ELSE LET first == CHOOSE k \in keys : \A j \in keys : k <= j
         IN  <<first>> \o CanonicalOrder(keys \ {first})

(***************************************************************************)
(* verifier_first_round                                                    *)
(***************************************************************************)
\* A plausible slip: the circuit combiner is taken from the front of the extracted elements.
RECURSIVE BatchCombinersLoopSplitSwapped(_, _, _, _, _, _)
BatchCombinersLoopSplitSwapped(keys, batch_sizes, tape, pos, needed, acc) ==
    IF keys = <<>> THEN [panic |-> FALSE, pos |-> pos, batch_combiners |-> acc]
    ELSE
      LET circuit == Head(keys)
          instances == batch_sizes[circuit]
      IN  IF instances = 0 THEN [panic |-> TRUE, pos |-> pos, batch_combiners |-> acc]
          ELSE
            LET n == instances - 1 + needed
                elems == Squeeze(tape, pos, n)
                instance_combiners == SubSeq(elems, needed + 1, n)
                circuit_combiner == SubSeq(elems, 1, needed)
                combiners ==
                    [circuit_combiner |->
                        IF Len(circuit_combiner) = 1 THEN circuit_combiner[1] ELSE One,
                     instance_combiners |-> <<One>> \o instance_combiners]
            IN  IF ~(Len(circuit_combiner) < 2)
                THEN [panic |-> TRUE, pos |-> pos + n, batch_combiners |-> acc]
                ELSE BatchCombinersLoopSplitSwapped(Tail(keys), batch_sizes, tape, pos + n, 1,
                        [c \in DOMAIN acc \cup {circuit} |->
                            IF c = circuit THEN combiners ELSE acc[c]])

\* A plausible slip: the list of instance combiners starts empty instead of with the identity.
RECURSIVE BatchCombinersLoopNoIdentity(_, _, _, _, _, _)
BatchCombinersLoopNoIdentity(keys, batch_sizes, tape, pos, needed, acc) ==
    IF keys = <<>> THEN [panic |-> FALSE, pos |-> pos, batch_combiners |-> acc]
    ELSE
      LET circuit == Head(keys)
          instances == batch_sizes[circuit]
      IN  IF instances = 0 THEN [panic |-> TRUE, pos |-> pos, batch_combiners |-> acc]
          ELSE
            LET n == instances - 1 + needed
                elems == Squeeze(tape, pos, n)
                instance_combiners == SubSeq(elems, 1, instances - 1)
                circuit_combiner == SubSeq(elems, instances, n)
                combiners ==
                    [circuit_combiner |->
                        IF Len(circuit_combiner) = 1 THEN circuit_combiner[1] ELSE One,
                     instance_combiners |-> instance_combiners]
            IN  IF ~(Len(circuit_combiner) < 2)
                THEN [panic |-> TRUE, pos |-> pos + n, batch_combiners |-> acc]
                ELSE BatchCombinersLoopNoIdentity(Tail(keys), batch_sizes, tape, pos + n, 1,
                        [c \in DOMAIN acc \cup {circuit} |->
                            IF c = circuit THEN combiners ELSE acc[c]])

\* A plausible slip: the first circuit too is given a combiner from the transcript.
RECURSIVE BatchCombinersLoopFirstCombiner(_, _, _, _, _, _)
BatchCombinersLoopFirstCombiner(keys, batch_sizes, tape, pos, needed, acc) ==
    IF keys = <<>> THEN [panic |-> FALSE, pos |-> pos, batch_combiners |-> acc]
    ELSE
      LET circuit == Head(keys)
          instances == batch_sizes[circuit]
      IN  IF instances = 0 THEN [panic |-> TRUE, pos |-> pos, batch_combiners |-> acc]
          ELSE
            LET n == instances - 1 + 1
                elems == Squeeze(tape, pos, n)
                instance_combiners == SubSeq(elems, 1, instances - 1)
                circuit_combiner == SubSeq(elems, instances, n)
                combiners ==
                    [circuit_combiner |->
                        IF Len(circuit_combiner) = 1 THEN circuit_combiner[1] ELSE One,
                     instance_combiners |-> <<One>> \o instance_combiners]
            IN  IF ~(Len(circuit_combiner) < 2)
                THEN [panic |-> TRUE, pos |-> pos + n, batch_combiners |-> acc]
                ELSE BatchCombinersLoopFirstCombiner(Tail(keys), batch_sizes, tape, pos + n, 1,
                        [c \in DOMAIN acc \cup {circuit} |->
                            IF c = circuit THEN combiners ELSE acc[c]])

\* The for-loop over batch_sizes (lines 79-97).  keys: the circuits still to visit;
\* pos: elements used so far; needed: circuit_combiners_needed; acc: batch_combiners.
RECURSIVE BatchCombinersLoop(_, _, _, _, _, _)
BatchCombinersLoop(keys, batch_sizes, tape, pos, needed, acc) ==
    IF keys = <<>> THEN [panic |-> FALSE, pos |-> pos, batch_combiners |-> acc]
    ELSE
      LET circuit == Head(keys)
          instances == batch_sizes[circuit]
      IN  \* instances - 1 on a usize that is 0: the subtraction overflows
          IF instances = 0 THEN [panic |-> TRUE, pos |-> pos, batch_combiners |-> acc]
          ELSE
            LET n == instances - 1 + needed
                elems == Squeeze(tape, pos, n)
                instance_combiners == SubSeq(elems, 1, instances - 1)
                circuit_combiner == SubSeq(elems, instances, n)
                combiners ==
                    [circuit_combiner |->
                        IF Len(circuit_combiner) = 1 THEN circuit_combiner[1] ELSE One,
                     instance_combiners |-> <<One>> \o instance_combiners]
            IN  IF ~(Len(circuit_combiner) < 2)
                THEN [panic |-> TRUE, pos |-> pos + n, batch_combiners |-> acc]
                ELSE BatchCombinersLoop(Tail(keys), batch_sizes, tape, pos + n, 1,
                                        [c \in DOMAIN acc \cup {circuit} |->
                                            IF c = circuit THEN combiners ELSE acc[c]])

\* What a call returns: result is "Ok", an AHPError kind or "panic" (a failed assert!);
\* squeezed counts the elements it extracted; message and state are Options.
Return(result, squeezed, message, state) ==
    [result |-> result, squeezed |-> squeezed, message |-> message, state |-> state]

\* The body of verifier_first_round after the five domains are built (lines 72-120).
\* domains: the five domains in the order FirstRoundDomains builds them.
FirstRoundSqueeze(batch_sizes, tape, domains) ==
    LET constraint_domain == domains[1]
        non_zero_a_domain == domains[2]
        non_zero_b_domain == domains[3]
        non_zero_c_domain == domains[4]
        input_domain == domains[5]
        first == Squeeze(tape, 0, 3)
        alpha == first[1]
        eta_b == first[2]
        eta_c == first[3]
        loop == BatchCombinersLoop(CanonicalOrder(DOMAIN batch_sizes), batch_sizes, tape,
                                   3, 0, <<>>)
        message == [alpha |-> alpha, eta_b |-> eta_b, eta_c |-> eta_c,
                    batch_combiners |-> loop.batch_combiners]
        new_state ==
            [batch_sizes |-> batch_sizes,
             input_domain |-> input_domain,
             constraint_domain |-> constraint_domain,
             non_zero_a_domain |-> non_zero_a_domain,
             non_zero_b_domain |-> non_zero_b_domain,
             non_zero_c_domain |-> non_zero_c_domain,
             first_round_message |-> Some(message),
             second_round_message |-> None,
             third_round_message |-> None,
             gamma |-> None]
    IN  IF loop.panic THEN Return("panic", loop.pos, None, None)
        ELSE IF IsZero(EvaluateVanishingPolynomial(constraint_domain, alpha))
        THEN Return("panic", loop.pos, None, None)
        ELSE Return("Ok", loop.pos, Some(message), Some(new_state))

\* The domains of verifier_first_round, in the order the code builds them.
FirstRoundDomains(index_info) ==
    <<EvaluationDomainNew(index_info.num_constraints),
      EvaluationDomainNew(index_info.num_non_zero_a),
      EvaluationDomainNew(index_info.num_non_zero_b),
      EvaluationDomainNew(index_info.num_non_zero_c),
      EvaluationDomainNew(index_info.num_public_inputs)>>

\* A plausible slip: the three challenges are extracted before the descriptor is checked.
FirstRoundSqueezeFirst(index_info, batch_sizes, tape) ==
    LET elems == Squeeze(tape, 0, 3)
        domains == FirstRoundDomains(index_info)
    IN  IF index_info.num_constraints # index_info.num_variables
        THEN Return("NonSquareMatrix", Len(elems), None, None)
        ELSE IF \E i \in 1..5 : domains[i] = None
        THEN Return("PolynomialDegreeTooLarge", Len(elems), None, None)
        ELSE FirstRoundSqueeze(batch_sizes, tape, [i \in 1..5 |-> Unwrap(domains[i])])

\* A plausible slip: a failure of the input domain's construction is not propagated.
FirstRoundInputDomainDefaulted(index_info, batch_sizes, tape) ==
    LET domains == FirstRoundDomains(index_info)
    IN  IF index_info.num_constraints # index_info.num_variables
        THEN Return("NonSquareMatrix", 0, None, None)
        ELSE IF \E i \in 1..4 : domains[i] = None
        THEN Return("PolynomialDegreeTooLarge", 0, None, None)
        ELSE FirstRoundSqueeze(batch_sizes, tape,
                               [i \in 1..5 |-> IF domains[i] = None THEN 1
                                               ELSE Unwrap(domains[i])])

\* verifier_first_round(index_info, batch_sizes, fs_rng) on a transcript that yields tape.
FirstRound(index_info, batch_sizes, tape) ==
    LET domains == FirstRoundDomains(index_info)
    IN  IF index_info.num_constraints # index_info.num_variables
        THEN Return("NonSquareMatrix", 0, None, None)
        ELSE IF \E i \in 1..5 : domains[i] = None
        THEN Return("PolynomialDegreeTooLarge", 0, None, None)
        ELSE FirstRoundSqueeze(batch_sizes, tape, [i \in 1..5 |-> Unwrap(domains[i])])

\* The number of elements verifier_first_round extracts for a batch when it reaches
\* the end of its loop (the values extracted do not change the count).
ZeroTape == [i \in 1..(3 + Cardinality(Circuits) * (MaxInstances + 1)) |-> 0]

FirstRoundDemand(batch_sizes) ==
    BatchCombinersLoop(CanonicalOrder(DOMAIN batch_sizes), batch_sizes, ZeroTape,
                       3, 0, <<>>).pos

(***************************************************************************)
(* verifier_second_round .. verifier_query_set                             *)
(***************************************************************************)
\* A plausible slip: beta is not validated against the constraint domain.
SecondRoundUnchecked(state, tape) ==
    LET elems == Squeeze(tape, 0, 1)
        beta == elems[1]
        message == [beta |-> beta]
    IN  Return("Ok", 1, Some(message),
               Some([state EXCEPT !.second_round_message = Some(message)]))

SecondRound(state, tape) ==
    LET elems == Squeeze(tape, 0, 1)
        beta == elems[1]
        message == [beta |-> beta]
    IN  IF IsZero(EvaluateVanishingPolynomial(state.constraint_domain, beta))
        THEN Return("panic", 1, None, None)
        ELSE Return("Ok", 1, Some(message),
                    Some([state EXCEPT !.second_round_message = Some(message)]))

\* A plausible slip: the two challenges are taken in the other order.
ThirdRoundSwapped(state, tape) ==
    LET elems == Squeeze(tape, 0, 2)
        r_b == elems[2]
        r_c == elems[1]
        message == [r_b |-> r_b, r_c |-> r_c]
    IN  Return("Ok", 2, Some(message),
               Some([state EXCEPT !.third_round_message = Some(message)]))

ThirdRound(state, tape) ==
    LET elems == Squeeze(tape, 0, 2)
        r_b == elems[1]
        r_c == elems[2]
        message == [r_b |-> r_b, r_c |-> r_c]
    IN  Return("Ok", 2, Some(message),
               Some([state EXCEPT !.third_round_message = Some(message)]))

FourthRound(state, tape) ==
    LET elems == Squeeze(tape, 0, 1)
        gamma == elems[1]
    IN  Return("Ok", 1, None, Some([state EXCEPT !.gamma = Some(gamma)]))

\* QuerySet::new(&state): the evaluation points of the query set, read from the
\* challenges of the state.
QuerySetNew(state) ==
    [beta |-> IF IsSome(state.second_round_message)
              THEN Some(Unwrap(state.second_round_message).beta) ELSE None,
     gamma |-> state.gamma,
     constraint_domain |-> state.constraint_domain]

QuerySetOf(state) == Return("Ok", 0, Some(QuerySetNew(state)), Some(state))

(***************************************************************************)
(* The verifier session: one State value threaded through the calls.       *)
(***************************************************************************)
NoInfo == None

VLast(op, info, ret, elems) ==
    [op |-> op, index_info |-> info, result |-> ret.result, squeezed |-> ret.squeezed,
     elems |-> elems, message |-> ret.message]

\* The caller keeps the returned State, if any; a failed assert! aborts the process.
VReturn(op, info, ret, tape) ==
    /\ vstate' = ret.state
    /\ fs_pos' = fs_pos + ret.squeezed
    /\ aborted' = (ret.result = "panic")
    /\ vlast' = VLast(op, info, ret, SubSeq(tape, 1, ret.squeezed))
    /\ UNCHANGED tvars

\* A session starts with verifier_first_round: there is no State before it.
\* A call that returns before it reads the transcript returns the same for every
\* batch and transcript; otherwise the batch and the elements are chosen.
verifier_first_round(index_info) ==
    /\ ~aborted
    /\ vstate = None
    /\ LET early == FirstRound(index_info, <<>>, ZeroTape)
       IN  IF early.result # "Ok"
           THEN VReturn("verifier_first_round", Some(index_info), early, ZeroTape)
           ELSE \E batch_sizes \in BatchSizes :
                \E tape \in Tapes(FirstRoundDemand(batch_sizes)) :
                    VReturn("verifier_first_round", Some(index_info),
                            FirstRound(index_info, batch_sizes, tape), tape)

LaterBudget(n) ==
    fs_pos + n <= FirstRoundDemand(Unwrap(vstate).batch_sizes) + MaxLaterElements

verifier_second_round ==
    /\ ~aborted
    /\ IsSome(vstate)
    /\ LaterBudget(1)
    /\ \E tape \in Tapes(1) :
           VReturn("verifier_second_round", NoInfo, SecondRound(Unwrap(vstate), tape), tape)

verifier_third_round ==
    /\ ~aborted
    /\ IsSome(vstate)
    /\ LaterBudget(2)
    /\ \E tape \in Tapes(2) :
           VReturn("verifier_third_round", NoInfo, ThirdRound(Unwrap(vstate), tape), tape)

verifier_fourth_round ==
    /\ ~aborted
    /\ IsSome(vstate)
    /\ LaterBudget(1)
    /\ \E tape \in Tapes(1) :
           VReturn("verifier_fourth_round", NoInfo, FourthRound(Unwrap(vstate), tape), tape)

verifier_query_set ==
    /\ ~aborted
    /\ IsSome(vstate)
    /\ VReturn("verifier_query_set", NoInfo, QuerySetOf(Unwrap(vstate)), <<>>)

(***************************************************************************)
(* Trace: data and inputs.                                                 *)
(***************************************************************************)
\* at most MaxTransitions transitions are inserted into a Trace
MaxTransitions == 2
\* Inclusion returns at most MaxInclusions inclusion assignments
MaxInclusions == 2

\* N::StateRoot::default(): the zero root
DefaultStateRoot == 0
\* N::StateRoot: the zero root and another root
StateRoots == {DefaultStateRoot, 1}

ProgramID(name, network) == [name |-> name, network |-> network]
\* program_id().to_string(): "<name>.<network>"
ProgramIDToString(program_id) == program_id.name \o "." \o program_id.network
\* function_name().to_string()
IdentifierToString(identifier) == identifier

\* Locator::new(program_id, function_name)
LocatorNew(program_id, function_name) ==
    [program_id |-> program_id, function_name |-> function_name]

\* Locator::from_str("inclusion.aleo/state_path")
InclusionLocator == LocatorNew(ProgramID("inclusion", "aleo"), "state_path")

\* The transitions a caller may insert: a Transition is known to the Trace by
\* its program_id() and function_name().
Transitions ==
    {[program_id |-> ProgramID("credits", "aleo"), function_name |-> "fee"],
     [program_id |-> ProgramID("credits", "aleo"), function_name |-> "mint"],
     [program_id |-> ProgramID("token", "aleo"), function_name |-> "fee"],
     [program_id |-> ProgramID("inclusion", "aleo"), function_name |-> "state_path"]}

\* The (proving_key, assignment) pairs a caller may supply with a transition.
ProvingTasks == {<<"pk1", "a1">>, <<"pk2", "a2">>}
Queries == {"q1", "q2"}
LocatorLabels == {"credits.aleo/mint", "token.aleo/fee"}

\* An InclusionAssignment, known to the Trace by state_path.global_state_root().
InclusionAssignment(root) == [state_path |-> [global_state_root |-> root]]

RECURSIVE SeqsUpTo(_, _)
SeqsUpTo(S, n) ==
    IF n = 0 THEN {<<>>}
    ELSE LET shorter == SeqsUpTo(S, n - 1)
         IN  shorter \cup {Append(q, x) : q \in {r \in shorter : Len(r) = n - 1}, x \in S}

\* What Inclusion::prepare_fee / prepare_execution (and the async variants) may
\* return: an error, or a list of inclusion assignments and a global state root.
InclusionResults ==
    {[ok |-> FALSE, assignments |-> <<>>, root |-> DefaultStateRoot]} \cup
    [ok : {TRUE},
     assignments : SeqsUpTo({InclusionAssignment(r) : r \in StateRoots}, MaxInclusions),
     root : StateRoots]

\* Once both cells are set, OnceCell::set drops whatever value it is handed, so
\* every Ok answer of Inclusion leads to the same state: an error and two
\* different Ok answers stand for all of them.
InclusionAnswers ==
    IF inclusion_assignments # None /\ global_state_root # None
    THEN {r \in InclusionResults :
              \/ ~r.ok
              \/ r.assignments = <<>> /\ r.root = DefaultStateRoot
              \/ r.assignments = <<InclusionAssignment(1)>> /\ r.root = 1}
    ELSE InclusionResults

\* A plausible slip: a cell that accepts a second write.
CellOverwrite(cell, value) == [ok |-> TRUE, cell |-> Some(value)]

\* OnceCell::set: Ok(()) and the value stored when the cell is empty, Err otherwise.
OnceCellSet(cell, value) ==
    IF cell = None THEN [ok |-> TRUE, cell |-> Some(value)] ELSE [ok |-> FALSE, cell |-> cell]

(***************************************************************************)
(* Trace: the last call.                                                   *)
(***************************************************************************)
\* op: the method; args: its arguments (those of an insert_transition that returned
\* Ok, the query of a prepare, the locator of a prove_execution); result: "Ok" or "Err"; error: the message;
\* inclusion: the Inclusion method called ("" when none); converted: the number of
\* to_circuit_assignment calls; engine: Some(label, tasks) when the Key Batch
\* Engine's prove_batch was called; value: the Execution or Fee returned.
TLast(op, args, result, error, inclusion, converted, engine, value) ==
    [op |-> op, args |-> args, result |-> result, error |-> error,
     inclusion |-> inclusion, converted |-> converted, engine |-> engine,
     value |-> value]

(***************************************************************************)
(* Trace::insert_transition                                                *)
(***************************************************************************)
\* A plausible slip: a Locator already in the map gets a fresh list.
EntryInsert(tasks, locator, proving_key, assignment) ==
    [l \in DOMAIN tasks \cup {locator} |->
        IF l = locator
        THEN [proving_key |-> proving_key, assignments |-> <<assignment>>]
        ELSE tasks[l]]

\* transition_tasks.entry(locator).or_insert((proving_key, vec![])).1.push(assignment)
EntryOrInsertPush(tasks, locator, proving_key, assignment) ==
    [l \in DOMAIN tasks \cup {locator} |->
        IF l = locator
        THEN IF locator \in DOMAIN tasks
             THEN [tasks[l] EXCEPT !.assignments = Append(@, assignment)]
             ELSE [proving_key |-> proving_key, assignments |-> <<assignment>>]
        ELSE tasks[l]]

\* A plausible slip: the two ensure! lines are missing.
InsertPreconditionMissing(assignments_cell, root_cell) == ""

\* The two ensure! of insert_transition (lines 69-71): the error, "" when both hold.
InsertPrecondition(assignments_cell, root_cell) ==
    IF ~(assignments_cell = None) THEN "ensure inclusion_assignments is none"
    ELSE IF ~(root_cell = None) THEN "ensure global_state_root is none"
    ELSE ""

\* inclusion_ok: whether Inclusion::insert_transition returns Ok.
insert_transition(transition, proving_key, assignment, inclusion_ok) ==
    LET args == [transition |-> transition, proving_key |-> proving_key,
                 assignment |-> assignment]
        Fail(error, inclusion) ==
            /\ tlast' = TLast("insert_transition", <<>>, "Err", error, inclusion, 0, None, None)
            /\ UNCHANGED <<transitions, transition_tasks, inclusion_tasks,
                           inclusion_assignments, global_state_root>>
    IN
    /\ IF InsertPrecondition(inclusion_assignments, global_state_root) # ""
       THEN Fail(InsertPrecondition(inclusion_assignments, global_state_root), "")
       ELSE IF ~inclusion_ok
       THEN Fail("Inclusion::insert_transition", "insert_transition")
       ELSE /\ Len(transitions) < MaxTransitions
            /\ inclusion_tasks' = Append(inclusion_tasks, transition)
            /\ transition_tasks' =
                   EntryOrInsertPush(transition_tasks,
                                     LocatorNew(transition.program_id, transition.function_name),
                                     proving_key, assignment)
            /\ transitions' = Append(transitions, transition)
            /\ tlast' = TLast("insert_transition", args, "Ok", "", "insert_transition",
                              0, None, None)
            /\ UNCHANGED <<inclusion_assignments, global_state_root>>
    /\ UNCHANGED selected_fee
    /\ UNCHANGED vvars

(***************************************************************************)
(* Trace::is_fee, Trace::prepare, Trace::prepare_async                     *)
(***************************************************************************)
\* A plausible slip: the first transition decides, however many there are.
IsFeeFirstTransition(trs) ==
    IF Len(trs) >= 1
    THEN /\ trs[1].program_id.name \o "." \o trs[1].program_id.network = "credits.aleo"
         /\ trs[1].function_name = "fee"
    ELSE FALSE

\* Trace::is_fee
IsFee(trs) ==
    IF Len(trs) = 1
    THEN /\ ProgramIDToString(trs[1].program_id) = "credits.aleo"
         /\ IdentifierToString(trs[1].function_name) = "fee"
    ELSE FALSE

is_fee == IsFee(transitions)

\* A plausible slip: the global state root is not stored.
PrepareWithoutRoot(op, suffix, query, res) ==
    LET inclusion == (IF is_fee THEN "prepare_fee" ELSE "prepare_execution") \o suffix
        Last(result, error) ==
            [op |-> op, args |-> [query |-> query], result |-> result, error |-> error,
             inclusion |-> inclusion, converted |-> 0, engine |-> None, value |-> None]
    IN
    IF ~res.ok
    THEN /\ tlast' = Last("Err", "Inclusion")
         /\ UNCHANGED <<inclusion_assignments, global_state_root>>
    ELSE IF inclusion_assignments # None
    THEN /\ tlast' = Last("Err", "Failed to set inclusion assignments")
         /\ UNCHANGED <<inclusion_assignments, global_state_root>>
    ELSE /\ inclusion_assignments' = Some(res.assignments)
         /\ tlast' = Last("Ok", "")
         /\ UNCHANGED global_state_root

\* Trace::prepare (lines 102-114) as op with suffix "": op names the call and suffix
\* is appended to the name of the Inclusion method.  res: what that method returns.
Prepare(op, suffix, query, res) ==
    LET inclusion == (IF is_fee THEN "prepare_fee" ELSE "prepare_execution") \o suffix
        set_assignments == OnceCellSet(inclusion_assignments, res.assignments)
        set_root == OnceCellSet(global_state_root, res.root)
        Last(result, error) ==
            TLast(op, [query |-> query], result, error, inclusion, 0, None, None)
    IN
    IF ~res.ok
    THEN /\ tlast' = Last("Err", "Inclusion")
         /\ UNCHANGED <<inclusion_assignments, global_state_root>>
    ELSE IF ~set_assignments.ok
    THEN /\ tlast' = Last("Err", "Failed to set inclusion assignments")
         /\ UNCHANGED <<inclusion_assignments, global_state_root>>
    ELSE IF ~set_root.ok
    THEN /\ inclusion_assignments' = set_assignments.cell
         /\ tlast' = Last("Err", "Failed to set global state root")
         /\ UNCHANGED global_state_root
    ELSE /\ inclusion_assignments' = set_assignments.cell
         /\ global_state_root' = set_root.cell
         /\ tlast' = Last("Ok", "")

\* The history of a prepare step: the path is recorded when the step fills
\* inclusion_assignments.
SelectedFeeRecorded(fee_paths) ==
    selected_fee' = IF inclusion_assignments = None /\ inclusion_assignments' # None
                    THEN Some(tlast'.inclusion \in fee_paths)
                    ELSE selected_fee

prepare(query, res) ==
    /\ Prepare("prepare", "", query, res)
    /\ SelectedFeeRecorded({"prepare_fee"})
    /\ UNCHANGED <<transitions, transition_tasks, inclusion_tasks>>
    /\ UNCHANGED vvars

\* A plausible slip: the async variant asks Inclusion for the other kind of path.
PrepareAsyncPathsSwapped(query, res) ==
    LET inclusion == IF is_fee THEN "prepare_execution_async" ELSE "prepare_fee_async"
        Last(result, error) ==
            TLast("prepare_async", [query |-> query], result, error, inclusion, 0, None, None)
    IN
    IF ~res.ok
    THEN /\ tlast' = Last("Err", "Inclusion")
         /\ UNCHANGED <<inclusion_assignments, global_state_root>>
    ELSE IF inclusion_assignments # None \/ global_state_root # None
    THEN /\ tlast' = Last("Err", "Failed to set inclusion assignments")
         /\ UNCHANGED <<inclusion_assignments, global_state_root>>
    ELSE /\ inclusion_assignments' = Some(res.assignments)
         /\ global_state_root' = Some(res.root)
         /\ tlast' = Last("Ok", "")

\* Trace::prepare_async (lines 117-129).  res: what the awaited Inclusion method
\* returns; &mut self is held across the await, so no other call interleaves.
PrepareAsync(query, res) ==
    LET inclusion == IF is_fee THEN "prepare_fee_async" ELSE "prepare_execution_async"
        set_assignments == OnceCellSet(inclusion_assignments, res.assignments)
        set_root == OnceCellSet(global_state_root, res.root)
        Last(result, error) ==
            TLast("prepare_async", [query |-> query], result, error, inclusion, 0, None, None)
    IN
    IF ~res.ok
    THEN /\ tlast' = Last("Err", "Inclusion")
         /\ UNCHANGED <<inclusion_assignments, global_state_root>>
    ELSE IF ~set_assignments.ok
    THEN /\ tlast' = Last("Err", "Failed to set inclusion assignments")
         /\ UNCHANGED <<inclusion_assignments, global_state_root>>
    ELSE IF ~set_root.ok
    THEN /\ inclusion_assignments' = set_assignments.cell
         /\ tlast' = Last("Err", "Failed to set global state root")
         /\ UNCHANGED global_state_root
    ELSE /\ inclusion_assignments' = set_assignments.cell
         /\ global_state_root' = set_root.cell
         /\ tlast' = Last("Ok", "")

prepare_async(query, res) ==
    /\ PrepareAsync(query, res)
    /\ SelectedFeeRecorded({"prepare_fee_async"})
    /\ UNCHANGED <<transitions, transition_tasks, inclusion_tasks>>
    /\ UNCHANGED vvars

(***************************************************************************)
(* Trace::prove_batch, Trace::prove_execution, Trace::prove_fee            *)
(***************************************************************************)
\* assignment.to_circuit_assignment::<A>()
ToCircuitAssignment(assignment) == [circuit |-> "inclusion", witness |-> assignment]

\* N::inclusion_proving_key()
InclusionProvingKey == "inclusion_pk"

\* The messages of prove_batch's two bail! (lines 255 and 264).
ZeroRootError ==
    "Inclusion expected the global state root in the execution to *not* be zero"

MismatchError ==
    "Inclusion expected the global state root to be the same across iterations"

\* A plausible slip: only the first inclusion assignment is compared with the root.
RECURSIVE BatchInclusionsLoopFirstOnly(_, _, _, _, _, _)
BatchInclusionsLoopFirstOnly(i, assignments, root, conv_fail, converted, batch_inclusions) ==
    IF i > Len(assignments)
    THEN [error |-> "", converted |-> converted, batch_inclusions |-> batch_inclusions]
    ELSE IF i = 1 /\ root # assignments[i].state_path.global_state_root
    THEN [error |-> MismatchError,
          converted |-> converted, batch_inclusions |-> batch_inclusions]
    ELSE IF i = conv_fail
    THEN [error |-> "to_circuit_assignment", converted |-> converted + 1,
          batch_inclusions |-> batch_inclusions]
    ELSE BatchInclusionsLoopFirstOnly(i + 1, assignments, root, conv_fail, converted + 1,
                                      Append(batch_inclusions,
                                             [circuit |-> "inclusion",
                                              witness |-> assignments[i]]))

\* The for-loop of prove_batch (lines 261-268).  i: the next assignment;
\* conv_fail: the position whose to_circuit_assignment returns an error (0: none).
RECURSIVE BatchInclusionsLoop(_, _, _, _, _, _)
BatchInclusionsLoop(i, assignments, root, conv_fail, converted, batch_inclusions) ==
    IF i > Len(assignments)
    THEN [error |-> "", converted |-> converted, batch_inclusions |-> batch_inclusions]
    ELSE IF root # assignments[i].state_path.global_state_root
    THEN [error |-> MismatchError,
          converted |-> converted, batch_inclusions |-> batch_inclusions]
    ELSE IF i = conv_fail
    THEN [error |-> "to_circuit_assignment", converted |-> converted + 1,
          batch_inclusions |-> batch_inclusions]
    ELSE BatchInclusionsLoop(i + 1, assignments, root, conv_fail, converted + 1,
                             Append(batch_inclusions, ToCircuitAssignment(assignments[i])))

\* HashMap::insert: the entry under key is replaced or added.
MapInsert(map, key, value) ==
    [k \in DOMAIN map \cup {key} |-> IF k = key THEN value ELSE map[k]]

\* What prove_batch returns.  engine: Some(label, tasks) when ProvingKey::prove_batch
\* was called.
BatchReturn(result, error, converted, engine, root) ==
    [result |-> result, error |-> error, converted |-> converted, engine |-> engine,
     root |-> root]

\* prove_batch after its zero-root check (lines 258-280).
\* engine_ok: whether ProvingKey::prove_batch returns a proof.
ProveBatchBody(locator, proving_tasks, assignments, root, conv_fail, engine_ok) ==
      LET loop == BatchInclusionsLoop(1, assignments, root, conv_fail, 0, <<>>)
          tasks == IF loop.batch_inclusions # <<>>
                   THEN MapInsert(proving_tasks, InclusionLocator,
                                  [proving_key |-> InclusionProvingKey,
                                   assignments |-> loop.batch_inclusions])
                   ELSE proving_tasks
          engine == Some([locator |-> locator, tasks |-> tasks])
      IN  IF loop.error # ""
          THEN BatchReturn("Err", loop.error, loop.converted, None, root)
          ELSE IF ~engine_ok
          THEN BatchReturn("Err", "ProvingKey::prove_batch", loop.converted, engine, root)
          ELSE BatchReturn("Ok", "", loop.converted, engine, root)

\* A plausible slip: the zero root is rejected only when there are inclusion assignments.
ProveBatchZeroOnlyWithInclusions(locator, proving_tasks, assignments, root, conv_fail, engine_ok) ==
    IF assignments # <<>> /\ root = DefaultStateRoot
    THEN BatchReturn("Err", ZeroRootError, 0, None, root)
    ELSE ProveBatchBody(locator, proving_tasks, assignments, root, conv_fail, engine_ok)

\* Trace::prove_batch
ProveBatch(locator, proving_tasks, assignments, root, conv_fail, engine_ok) ==
    IF root = DefaultStateRoot
    THEN BatchReturn("Err", ZeroRootError, 0, None, root)
    ELSE ProveBatchBody(locator, proving_tasks, assignments, root, conv_fail, engine_ok)

\* The Execution or Fee a prove call returns.
Proved(kind, trs, root) ==
    [kind |-> kind, transitions |-> trs, global_state_root |-> root, proof |-> Some("proof")]

\* from_ok: whether Execution::from returns Ok.
ProveExecution(locator, conv_fail, engine_ok, from_ok) ==
    LET args == [locator |-> locator]
        Last(result, error, converted, engine, value) ==
            TLast("prove_execution", args, result, error, "", converted, engine, value)
    IN
    IF ~(~is_fee)
    THEN Last("Err", "The trace cannot prove execution for fee", 0, None, None)
    ELSE IF inclusion_assignments = None
    THEN Last("Err", "Inclusion assignments have not been set", 0, None, None)
    ELSE IF global_state_root = None
    THEN Last("Err", "Global state root has not been set", 0, None, None)
    ELSE
      LET batch == ProveBatch(locator, transition_tasks, Unwrap(inclusion_assignments),
                              Unwrap(global_state_root), conv_fail, engine_ok)
      IN  IF batch.result # "Ok"
          THEN Last("Err", batch.error, batch.converted, batch.engine, None)
          ELSE IF ~from_ok
          THEN Last("Err", "Execution::from", batch.converted, batch.engine, None)
          ELSE Last("Ok", "", batch.converted, batch.engine,
                    Some(Proved("Execution", transitions, batch.root)))

\* A plausible slip: prove_fee without its is_fee() check.
ProveFeeUnchecked(conv_fail, engine_ok) ==
    LET Last(result, error, converted, engine, value) ==
            [op |-> "prove_fee", args |-> <<>>, result |-> result, error |-> error,
             inclusion |-> "", converted |-> converted, engine |-> engine, value |-> value]
    IN
    IF inclusion_assignments = None
    THEN Last("Err", "Inclusion assignments have not been set", 0, None, None)
    ELSE IF ~(Len(Unwrap(inclusion_assignments)) = 1)
    THEN Last("Err", "Expected 1 inclusion assignment for proving the fee", 0, None, None)
    ELSE IF global_state_root = None
    THEN Last("Err", "Global state root has not been set", 0, None, None)
    ELSE IF Len(transitions) # 1
    THEN Last("Err", "Expected 1 transition in the trace for proving the fee", 0, None, None)
    ELSE
      LET batch == ProveBatch("credits.aleo/fee", transition_tasks,
                              Unwrap(inclusion_assignments), Unwrap(global_state_root),
                              conv_fail, engine_ok)
      IN  IF batch.result # "Ok"
          THEN Last("Err", batch.error, batch.converted, batch.engine, None)
          ELSE Last("Ok", "", batch.converted, batch.engine,
                    Some([kind |-> "Fee", transitions |-> <<transitions[1]>>,
                          global_state_root |-> batch.root, proof |-> Some("proof")]))

\* Trace::prove_fee
ProveFee(conv_fail, engine_ok) ==
    LET Last(result, error, converted, engine, value) ==
            TLast("prove_fee", <<>>, result, error, "", converted, engine, value)
    IN
    IF ~is_fee
    THEN Last("Err", "The trace cannot prove fee for execution", 0, None, None)
    ELSE IF inclusion_assignments = None
    THEN Last("Err", "Inclusion assignments have not been set", 0, None, None)
    ELSE IF ~(Len(Unwrap(inclusion_assignments)) = 1)
    THEN Last("Err", "Expected 1 inclusion assignment for proving the fee", 0, None, None)
    ELSE IF global_state_root = None
    THEN Last("Err", "Global state root has not been set", 0, None, None)
    ELSE IF Len(transitions) # 1
    THEN Last("Err", "Expected 1 transition in the trace for proving the fee", 0, None, None)
    ELSE
      LET batch == ProveBatch("credits.aleo/fee", transition_tasks,
                              Unwrap(inclusion_assignments), Unwrap(global_state_root),
                              conv_fail, engine_ok)
      IN  IF batch.result # "Ok"
          THEN Last("Err", batch.error, batch.converted, batch.engine, None)
          ELSE Last("Ok", "", batch.converted, batch.engine,
                    Some(Proved("Fee", <<transitions[1]>>, batch.root)))

\* prove_execution and prove_fee take &self: the Trace is not written.
prove_execution(locator, conv_fail, engine_ok, from_ok) ==
    /\ tlast' = ProveExecution(locator, conv_fail, engine_ok, from_ok)
    /\ UNCHANGED <<transitions, transition_tasks, inclusion_tasks, inclusion_assignments,
                   global_state_root, selected_fee>>
    /\ UNCHANGED vvars

prove_fee(conv_fail, engine_ok) ==
    /\ tlast' = ProveFee(conv_fail, engine_ok)
    /\ UNCHANGED <<transitions, transition_tasks, inclusion_tasks, inclusion_assignments,
                   global_state_root, selected_fee>>
    /\ UNCHANGED vvars

(***************************************************************************)
(* Trace::verify_batch, Trace::verify_execution_proof,                     *)
(* Trace::verify_fee_proof                                                 *)
(***************************************************************************)
\* a fee transition has at most MaxInputs inputs
MaxInputs == 2

\* Input::Record(..) and another variant of Input
InputKinds == {"Record", "Public"}

\* execution.proof() / fee.proof()
Proofs == {None, Some("proof")}

\* The Executions handed to verify_execution_proof: the transitions of an
\* Execution are not fee transitions of credits.aleo.
Executions ==
    [kind : {"Execution"},
     transitions : SeqsUpTo({t \in Transitions : t.program_id.name = "token"
                                                 \/ t.function_name = "mint"},
                            MaxTransitions),
     global_state_root : StateRoots, proof : Proofs]

\* The Fees handed to verify_fee_proof: a Fee has one transition, with its inputs.
Fees ==
    [kind : {"Fee"},
     transition : [program_id : {ProgramID("credits", "aleo"), ProgramID("token", "aleo")},
                   function_name : {"fee"},
                   inputs : SeqsUpTo(InputKinds, MaxInputs)],
     global_state_root : StateRoots, proof : Proofs]

\* (VerifyingKey, Vec<Vec<Field>>) of a locator
VerifierInput(verifying_key) == [verifying_key |-> verifying_key, inputs |-> <<"x">>]

\* HashMap<Locator, (VerifyingKey, Vec<Vec<Field>>)>: none, one or two circuits
VerifierInputMaps ==
    LET mint == LocatorNew(ProgramID("credits", "aleo"), "mint")
        fee == LocatorNew(ProgramID("token", "aleo"), "fee")
    IN  {<<>>,
         [l \in {mint} |-> VerifierInput("vk1")],
         [l \in {mint, fee} |-> VerifierInput(IF l = mint THEN "vk1" ELSE "vk2")]}

\* The (Locator, (VerifyingKey, inputs)) pair handed to verify_fee_proof.
FeeVerifierInputs ==
    {<<LocatorNew(ProgramID("credits", "aleo"), "fee"), VerifierInput("vk1")>>,
     <<LocatorNew(ProgramID("token", "aleo"), "fee"), VerifierInput("vk2")>>}

\* What Inclusion::prepare_verifier_inputs may return: an error, no inclusion
\* inputs, or some.
PrepareVerifierInputsResults ==
    {[ok |-> FALSE, inputs |-> <<>>], [ok |-> TRUE, inputs |-> <<>>],
     [ok |-> TRUE, inputs |-> <<"inclusion_input">>]}

\* N::inclusion_verifying_key()
InclusionVerifyingKey == "inclusion_vk"

\* What verify_batch returns.  inclusion: the Inclusion method called; engine: the
\* VerifyingKey::verify_batch calls made, each with its arguments and its answer.
VerifyReturn(result, error, engine) ==
    [result |-> result, error |-> error, inclusion |-> "prepare_verifier_inputs",
     engine |-> engine]

\* A plausible slip: both answers of the engine are mapped to Ok(()).
VerifyBatchAnswerIgnored(locator, verifier_inputs, root, trs, proof, prep, answer) ==
    IF ~prep.ok THEN VerifyReturn("Err", "Inclusion::prepare_verifier_inputs", <<>>)
    ELSE
      LET inputs == IF prep.inputs # <<>>
                    THEN MapInsert(verifier_inputs, InclusionLocator,
                                   [verifying_key |-> InclusionVerifyingKey,
                                    inputs |-> prep.inputs])
                    ELSE verifier_inputs
          call == [locator |-> locator, verifier_inputs |-> inputs, proof |-> proof,
                   answer |-> answer]
      IN  VerifyReturn("Ok", "", <<call>>)

\* Trace::verify_batch.  prep: what Inclusion::prepare_verifier_inputs(root, trs)
\* returns; answer: what VerifyingKey::verify_batch returns.
VerifyBatch(locator, verifier_inputs, root, trs, proof, prep, answer) ==
    IF ~prep.ok THEN VerifyReturn("Err", "Inclusion::prepare_verifier_inputs", <<>>)
    ELSE
      LET inputs == IF prep.inputs # <<>>
                    THEN MapInsert(verifier_inputs, InclusionLocator,
                                   [verifying_key |-> InclusionVerifyingKey,
                                    inputs |-> prep.inputs])
                    ELSE verifier_inputs
          call == [locator |-> locator, verifier_inputs |-> inputs, proof |-> proof,
                   answer |-> answer]
      IN  IF answer THEN VerifyReturn("Ok", "", <<call>>)
          ELSE VerifyReturn("Err", "Failed to verify proof", <<call>>)

\* Trace::verify_execution_proof
VerifyExecutionProof(locator, verifier_inputs, execution, prep, answer) ==
    LET args == [locator |-> locator, verifier_inputs |-> verifier_inputs,
                 value |-> execution]
    IN  IF execution.proof = None
        THEN TLast("verify_execution_proof", args, "Err",
                   "Expected the execution to contain a proof", "", 0, <<>>, None)
        ELSE
          LET batch == VerifyBatch(locator, verifier_inputs, execution.global_state_root,
                                   execution.transitions, Unwrap(execution.proof),
                                   prep, answer)
          IN  IF batch.result = "Ok"
              THEN TLast("verify_execution_proof", args, "Ok", "", batch.inclusion, 0,
                         batch.engine, None)
              ELSE TLast("verify_execution_proof", args, "Err",
                         "Execution is invalid - " \o batch.error, batch.inclusion, 0,
                         batch.engine, None)

\* The number of Input::Record among the inputs.
RECURSIVE CountRecords(_)
CountRecords(inputs) ==
    IF inputs = <<>> THEN 0
    ELSE (IF Head(inputs) = "Record" THEN 1 ELSE 0) + CountRecords(Tail(inputs))

\* A plausible slip: as in verify_execution_proof, the root is not compared with zero.
FeeProofPreconditionRootUnchecked(fee) ==
    IF fee.proof = None
    THEN "Expected the fee to contain a proof"
    ELSE IF CountRecords(fee.transition.inputs) # 1
    THEN "Inclusion expected the fee to contain an input record"
    ELSE ""

\* The checks of verify_fee_proof that precede verify_batch (lines 217-227): the
\* error, "" when all pass.
FeeProofPrecondition(fee) ==
    IF fee.global_state_root = DefaultStateRoot
    THEN "Inclusion expected the global state root in the fee to *not* be zero"
    ELSE IF fee.proof = None
    THEN "Expected the fee to contain a proof"
    ELSE IF CountRecords(fee.transition.inputs) # 1
    THEN "Inclusion expected the fee to contain an input record"
    ELSE ""

\* Trace::verify_fee_proof.  verifier_inputs: the (Locator, (VerifyingKey, inputs)) pair.
VerifyFeeProof(verifier_inputs, fee, prep, answer) ==
    LET args == [locator |-> "credits.aleo/fee",
                 verifier_inputs |-> [l \in {verifier_inputs[1]} |-> verifier_inputs[2]],
                 value |-> fee]
    IN  IF FeeProofPrecondition(fee) # ""
        THEN TLast("verify_fee_proof", args, "Err", FeeProofPrecondition(fee), "", 0,
                   <<>>, None)
        ELSE
          LET batch == VerifyBatch("credits.aleo/fee", args.verifier_inputs,
                                   fee.global_state_root, <<fee.transition>>,
                                   Unwrap(fee.proof), prep, answer)
          IN  IF batch.result = "Ok"
              THEN TLast("verify_fee_proof", args, "Ok", "", batch.inclusion, 0,
                         batch.engine, None)
              ELSE TLast("verify_fee_proof", args, "Err",
                         "Fee is invalid - " \o batch.error, batch.inclusion, 0,
                         batch.engine, None)

\* The verify functions take no Trace: they leave every Trace as it is.
verify_execution_proof(locator, verifier_inputs, execution, prep, answer) ==
    /\ tlast' = VerifyExecutionProof(locator, verifier_inputs, execution, prep, answer)
    /\ UNCHANGED <<transitions, transition_tasks, inclusion_tasks, inclusion_assignments,
                   global_state_root, selected_fee>>
    /\ UNCHANGED vvars

verify_fee_proof(verifier_inputs, fee, prep, answer) ==
    /\ tlast' = VerifyFeeProof(verifier_inputs, fee, prep, answer)
    /\ UNCHANGED <<transitions, transition_tasks, inclusion_tasks, inclusion_assignments,
                   global_state_root, selected_fee>>
    /\ UNCHANGED vvars

(***************************************************************************)
(* Specifications.                                                         *)
(***************************************************************************)
VInit ==
    /\ vstate = None
    /\ fs_pos = 0
    /\ aborted = FALSE
    /\ vlast = [op |-> "new", index_info |-> None, result |-> "Ok", squeezed |-> 0,
                elems |-> <<>>, message |-> None]

\* Trace::new()
TInit ==
    /\ transitions = <<>>
    /\ transition_tasks = <<>>
    /\ inclusion_tasks = <<>>
    /\ inclusion_assignments = None
    /\ global_state_root = None
    /\ tlast = TLast("new", <<>>, "Ok", "", "", 0, None, None)
    /\ selected_fee = None

Init == VInit /\ TInit

VNext ==
    \/ \E index_info \in CircuitInfos : verifier_first_round(index_info)
    \/ verifier_second_round
    \/ verifier_third_round
    \/ verifier_fourth_round
    \/ verifier_query_set

TNext ==
    \/ \E transition \in Transitions, task \in ProvingTasks, inclusion_ok \in BOOLEAN :
           insert_transition(transition, task[1], task[2], inclusion_ok)
    \/ \E query \in Queries, res \in InclusionAnswers : prepare(query, res)
    \/ \E query \in Queries, res \in InclusionAnswers : prepare_async(query, res)
    \/ \E locator \in LocatorLabels, conv_fail \in 0..MaxInclusions,
          engine_ok \in BOOLEAN, from_ok \in BOOLEAN :
           prove_execution(locator, conv_fail, engine_ok, from_ok)
    \/ \E conv_fail \in 0..MaxInclusions, engine_ok \in BOOLEAN :
           prove_fee(conv_fail, engine_ok)

\* The verifier rounds alone.
SpecVerifier == Init /\ [][VNext]_vars

\* The Trace alone.
SpecTrace == Init /\ [][TNext]_vars

\* The proof checks of the Trace.
PNext ==
    \/ \E locator \in LocatorLabels, verifier_inputs \in VerifierInputMaps,
          execution \in Executions, prep \in PrepareVerifierInputsResults,
          answer \in BOOLEAN :
           verify_execution_proof(locator, verifier_inputs, execution, prep, answer)
    \/ \E verifier_inputs \in FeeVerifierInputs, fee \in Fees,
          prep \in PrepareVerifierInputsResults, answer \in BOOLEAN :
           verify_fee_proof(verifier_inputs, fee, prep, answer)

\* The proof checks alone: associated functions, called on Executions and Fees.
SpecVerifyProof == Init /\ [][PNext]_vars

\* A verifier session and a Trace side by side.
Next == VNext \/ TNext \/ PNext

Spec == Init /\ [][Next]_vars

(***************************************************************************)
(* Claims about the verifier rounds (checked under SpecVerifier).          *)
(***************************************************************************)

\* C1: the rounds complete strictly in the order 1, 2, 3, 4: a round has succeeded
\* only on a state whose preceding round's field is set, and in no reachable State
\* is a later round's field set while an earlier round's field is unset.
\* (Stated for rounds 2-4, whose code is verifier.rs lines 124-163.)
C1_RoundsInOrder ==
    IsSome(vstate) =>
        LET state == Unwrap(vstate)
        IN  /\ IsSome(state.second_round_message) => IsSome(state.first_round_message)
            /\ IsSome(state.third_round_message) => IsSome(state.second_round_message)
            /\ IsSome(state.gamma) => IsSome(state.third_round_message)

\* C3: in a State threaded through the round calls, a field that is set keeps its
\* value in every later call, a repeated call of the same round included.
C3_FieldsNeverReplaced ==
    [][(IsSome(vstate) /\ IsSome(vstate')) =>
          LET before == Unwrap(vstate)
              after == Unwrap(vstate')
          IN  /\ IsSome(before.first_round_message) =>
                     after.first_round_message = before.first_round_message
              /\ IsSome(before.second_round_message) =>
                     after.second_round_message = before.second_round_message
              /\ IsSome(before.third_round_message) =>
                     after.third_round_message = before.third_round_message
              /\ IsSome(before.gamma) => after.gamma = before.gamma]_vars

(***************************************************************************)
(* Claims about the Trace (checked under SpecTrace).                       *)
(***************************************************************************)
\* Both write-once cells are set.
Prepared == inclusion_assignments # None /\ global_state_root # None

PrepareOps == {"prepare", "prepare_async"}
ProveOps == {"prove_execution", "prove_fee"}

\* C4: a prepare or prepare_async that returns Ok leaves both cells set, and from
\* then on every prepare or prepare_async call, whatever its query, returns an
\* error and leaves the inclusion assignments and the global state root as the
\* first call wrote them.
C4_PrepareOnlyOnce ==
    /\ [](tlast.op \in PrepareOps /\ tlast.result = "Ok" => Prepared)
    /\ [][(Prepared /\ tlast'.op \in PrepareOps) =>
              /\ tlast'.result = "Err"
              /\ inclusion_assignments' = inclusion_assignments
              /\ global_state_root' = global_state_root]_vars

\* A prepare has returned Ok and a later prepare, with the other query, was rejected
\* by the cell.
C4_Witness ==
    /\ Prepared
    /\ tlast.op \in PrepareOps
    /\ tlast.result = "Err"
    /\ tlast.error = "Failed to set inclusion assignments"
    /\ tlast.args.query = "q2"

\* C5: once both cells are set, every insert_transition call returns an error
\* without calling the Inclusion accumulator, and leaves the transition list, the
\* task map and the Inclusion accumulator unchanged.
C5_NoInsertAfterPrepare ==
    [][(Prepared /\ tlast'.op = "insert_transition") =>
           /\ tlast'.result = "Err"
           /\ tlast'.inclusion = ""
           /\ UNCHANGED <<transitions, transition_tasks, inclusion_tasks>>]_vars

\* An insert_transition was rejected on a prepared Trace that holds a transition.
C5_Witness ==
    /\ Prepared
    /\ Len(transitions) = 1
    /\ tlast.op = "insert_transition"
    /\ tlast.result = "Err"
    /\ tlast.error = "ensure inclusion_assignments is none"

\* C6: the two cells are both unset or both set in every reachable state; a cell
\* that is set is never written again; a prepare that fails on an unprepared Trace
\* leaves both unset, and a prepare that returns Ok leaves both set.
C6_CellsSetTogether ==
    /\ []((inclusion_assignments = None) <=> (global_state_root = None))
    /\ [][/\ inclusion_assignments # None => inclusion_assignments' = inclusion_assignments
          /\ global_state_root # None => global_state_root' = global_state_root
          /\ (tlast'.op \in PrepareOps /\ tlast'.result = "Ok") =>
                 (inclusion_assignments' # None /\ global_state_root' # None)
          /\ (~Prepared /\ tlast'.op \in PrepareOps /\ tlast'.result = "Err") =>
                 (inclusion_assignments' = None /\ global_state_root' = None)]_vars

\* A prepare has set both cells, to a non-empty list and a root.
C6_Witness ==
    /\ tlast.op = "prepare"
    /\ tlast.result = "Ok"
    /\ inclusion_assignments # None
    /\ global_state_root # None
    /\ Len(Unwrap(inclusion_assignments)) = 2

\* C7: prove_execution on a fee trace, prove_fee on a trace that is no fee trace,
\* and either of them on a Trace whose cells are not both set, return an error
\* without calling the Key Batch Engine and leave the Trace unchanged.
C7_ProvePreconditions ==
    [][((tlast'.op = "prove_execution" /\ (is_fee \/ ~Prepared))
        \/ (tlast'.op = "prove_fee" /\ (~is_fee \/ ~Prepared))) =>
           /\ tlast'.result = "Err"
           /\ tlast'.engine = None
           /\ tlast'.value = None
           /\ UNCHANGED <<transitions, transition_tasks, inclusion_tasks,
                          inclusion_assignments, global_state_root>>]_vars

\* prove_fee was rejected on a prepared Trace with one transition that is no fee
\* and one inclusion assignment.
C7_Witness ==
    /\ Prepared
    /\ Len(transitions) = 1
    /\ ~is_fee
    /\ Len(Unwrap(inclusion_assignments)) = 1
    /\ tlast.op = "prove_fee"
    /\ tlast.result = "Err"
    /\ tlast.error = "The trace cannot prove fee for execution"

\* The checks of prove_execution / prove_fee that precede prove_batch all pass.
ReachesProveBatch ==
    /\ Prepared
    /\ \/ tlast.op = "prove_execution" /\ ~is_fee
       \/ tlast.op = "prove_fee" /\ is_fee /\ Len(Unwrap(inclusion_assignments)) = 1

\* C8: a prove call that reaches prove_batch with the zero global state root fails
\* with the zero-root error, whatever the inclusion assignments (none included),
\* before any to_circuit_assignment and before the Key Batch Engine is called; and
\* no Execution or Fee returned by a prove call carries the zero root.
C8_ZeroRootRejected ==
    /\ (ReachesProveBatch /\ Unwrap(global_state_root) = DefaultStateRoot) =>
           /\ tlast.result = "Err"
           /\ tlast.error = ZeroRootError
           /\ tlast.converted = 0
           /\ tlast.engine = None
    /\ tlast.value # None => Unwrap(tlast.value).global_state_root # DefaultStateRoot

\* prove_execution was rejected for the zero root on a Trace with no inclusion
\* assignments.
C8_Witness ==
    /\ tlast.op = "prove_execution"
    /\ ReachesProveBatch
    /\ Unwrap(global_state_root) = DefaultStateRoot
    /\ Unwrap(inclusion_assignments) = <<>>
    /\ tlast.error = ZeroRootError

\* Some inclusion assignment carries a root other than the global state root.
SomeRootDiffers ==
    \E i \in 1..Len(Unwrap(inclusion_assignments)) :
        Unwrap(inclusion_assignments)[i].state_path.global_state_root
            # Unwrap(global_state_root)

\* C9: a prove call that reaches prove_batch with an inclusion assignment whose
\* root differs from the global state root fails without calling the Key Batch
\* Engine.
C9_RootMismatchRejected ==
    (ReachesProveBatch /\ SomeRootDiffers) =>
        /\ tlast.result = "Err"
        /\ tlast.engine = None
        /\ tlast.value = None

\* prove_execution was rejected for two inclusion assignments with different roots,
\* the first of which agrees with the (non-zero) global state root.
C9_Witness ==
    /\ tlast.op = "prove_execution"
    /\ ReachesProveBatch
    /\ Len(Unwrap(inclusion_assignments)) = 2
    /\ Unwrap(inclusion_assignments)[1].state_path.global_state_root
           = Unwrap(global_state_root)
    /\ Unwrap(inclusion_assignments)[2].state_path.global_state_root
           # Unwrap(global_state_root)
    /\ Unwrap(global_state_root) # DefaultStateRoot
    /\ tlast.error = MismatchError
    /\ tlast.converted = 1

\* The transition targets the fee circuit credits.aleo/fee.
TargetsFee(transition) ==
    /\ transition.program_id = ProgramID("credits", "aleo")
    /\ transition.function_name = "fee"

\* C10: is_fee() is true if and only if the Trace holds exactly one transition and
\* that transition targets credits.aleo/fee.
C10_IsFeeExactlyOneFee ==
    is_fee <=> (Len(transitions) = 1 /\ TargetsFee(transitions[1]))

\* Two transitions, both targeting the fee circuit: no fee trace.
C10_Witness ==
    /\ Len(transitions) = 2
    /\ \A i \in 1..2 : TargetsFee(transitions[i])
    /\ ~is_fee

(***************************************************************************)
(* Claims about verifier_first_round and verifier_second_round (checked    *)
(* under SpecVerifier).                                                    *)
(***************************************************************************)
\* The last call was verifier_first_round.
FirstRoundCalled == vlast.op = "verifier_first_round"

\* The descriptor of the last verifier_first_round call.
LastInfo == Unwrap(vlast.index_info)

\* All five domain constructions of verifier_first_round succeed for info.
AllDomainsBuilt(info) ==
    /\ EvaluationDomainNew(info.num_constraints) # None
    /\ EvaluationDomainNew(info.num_non_zero_a) # None
    /\ EvaluationDomainNew(info.num_non_zero_b) # None
    /\ EvaluationDomainNew(info.num_non_zero_c) # None
    /\ EvaluationDomainNew(info.num_public_inputs) # None

\* C11: a verifier_first_round that returns NonSquareMatrix does so exactly for a
\* descriptor with num_constraints # num_variables, and it and a round that
\* returns the domain error have extracted no element from the transcript.
C11_RejectBeforeSqueeze ==
    FirstRoundCalled =>
        /\ LastInfo.num_constraints # LastInfo.num_variables
               => vlast.result = "NonSquareMatrix"
        /\ vlast.result \in {"NonSquareMatrix", "PolynomialDegreeTooLarge"}
               => vlast.squeezed = 0 /\ vlast.elems = <<>> /\ fs_pos = 0

\* A non-square descriptor was rejected.
C11_Witness ==
    /\ FirstRoundCalled
    /\ LastInfo.num_constraints # LastInfo.num_variables
    /\ vlast.result = "NonSquareMatrix"
    /\ fs_pos = 0

\* C12 as stated: for a square descriptor, verifier_first_round returns success if
\* and only if all five domain constructions succeed, and otherwise returns the
\* domain-size error.
C12_SuccessIffDomainsBuilt ==
    (FirstRoundCalled /\ LastInfo.num_constraints = LastInfo.num_variables) =>
        /\ vlast.result = "Ok" <=> AllDomainsBuilt(LastInfo)
        /\ vlast.result # "Ok" => vlast.result = "PolynomialDegreeTooLarge"

\* C12 amended: for a square descriptor, verifier_first_round returns a failure if
\* and only if one of the five domain constructions fails, and the failure is the
\* domain-size error; it returns success if and only if all five succeed and no
\* assert! of the round fails.
C12_FailureIffDomainFails ==
    (FirstRoundCalled /\ LastInfo.num_constraints = LastInfo.num_variables) =>
        /\ vlast.result \in {"Ok", "PolynomialDegreeTooLarge", "panic"}
        /\ vlast.result = "PolynomialDegreeTooLarge" <=> ~AllDomainsBuilt(LastInfo)
        /\ vlast.result = "Ok" <=> (AllDomainsBuilt(LastInfo) /\ ~aborted)
        /\ vlast.result = "Ok" <=> IsSome(vstate)

\* A square descriptor whose input domain alone cannot be built was rejected.
C12_Witness ==
    /\ FirstRoundCalled
    /\ LastInfo.num_constraints = LastInfo.num_variables
    /\ EvaluationDomainNew(LastInfo.num_constraints) # None
    /\ EvaluationDomainNew(LastInfo.num_non_zero_a) # None
    /\ EvaluationDomainNew(LastInfo.num_non_zero_b) # None
    /\ EvaluationDomainNew(LastInfo.num_non_zero_c) # None
    /\ EvaluationDomainNew(LastInfo.num_public_inputs) = None
    /\ vlast.result = "PolynomialDegreeTooLarge"

\* verifier_first_round returned Ok: its batch, its message and the circuits of the
\* batch in canonical order.
FirstRoundOk == FirstRoundCalled /\ vlast.result = "Ok"
LastBatch == Unwrap(vstate).batch_sizes
LastMessage == Unwrap(vlast.message)
LastOrder == CanonicalOrder(DOMAIN LastBatch)

\* The sum of (instance_count - 1) over the first j circuits of order.
RECURSIVE InstanceSum(_, _, _)
InstanceSum(order, batch, j) ==
    IF j = 0 THEN 0 ELSE InstanceSum(order, batch, j - 1) + (batch[order[j]] - 1)

\* Where the claims place the elements in the transcript's output: the circuit
\* combiner of the j-th circuit (j >= 2) and the k-th instance combiner (k >= 2)
\* of the j-th circuit.
CircuitCombinerPosition(order, batch, j) == 3 + InstanceSum(order, batch, j) + (j - 1)
InstanceCombinerPosition(order, batch, j, k) ==
    3 + InstanceSum(order, batch, j - 1) + (IF j >= 2 THEN j - 2 ELSE 0) + (k - 1)

\* The first circuit's combiner is the identity, every other circuit's is the
\* element extracted for it.
FirstIdentityOthersExtracted ==
    /\ LastMessage.batch_combiners[LastOrder[1]].circuit_combiner = One
    /\ \A j \in 2..Len(LastOrder) :
           LET pos == CircuitCombinerPosition(LastOrder, LastBatch, j)
           IN  /\ pos <= Len(vlast.elems)
               /\ LastMessage.batch_combiners[LastOrder[j]].circuit_combiner
                      = vlast.elems[pos]

\* C13 as stated: for a batch of two or more circuits, exactly one circuit has the
\* identity as circuit_combiner, the first in canonical order, and every other
\* circuit's circuit_combiner is the element extracted for it.
C13_ExactlyOneIdentityCombiner ==
    (FirstRoundOk /\ Len(LastOrder) >= 2) =>
        /\ FirstIdentityOthersExtracted
        /\ Cardinality({c \in DOMAIN LastBatch :
                           LastMessage.batch_combiners[c].circuit_combiner = One}) = 1

\* C13 amended: for a batch of two or more circuits, the first circuit in canonical
\* order has the identity as circuit_combiner and every other circuit's
\* circuit_combiner is the element extracted for it, whatever its value.
C13_FirstIdentityOthersExtracted ==
    (FirstRoundOk /\ Len(LastOrder) >= 2) => FirstIdentityOthersExtracted

\* Two circuits of two instances each, the second with a combiner that is not the
\* identity.
C13_Witness ==
    /\ FirstRoundOk
    /\ Len(LastOrder) = 2
    /\ \A c \in DOMAIN LastBatch : LastBatch[c] = 2
    /\ LastMessage.batch_combiners[LastOrder[2]].circuit_combiner # One
    /\ vlast.elems[4] # vlast.elems[6]

\* C14: after a successful verifier_first_round every circuit of the batch has as
\* many instance combiners as instances, the first of them the identity.
C14_InstanceCombiners ==
    FirstRoundOk =>
        /\ DOMAIN LastMessage.batch_combiners = DOMAIN LastBatch
        /\ \A c \in DOMAIN LastBatch :
               LET list == LastMessage.batch_combiners[c].instance_combiners
               IN  /\ Len(list) = LastBatch[c]
                   /\ Len(list) >= 1
                   /\ list[1] = One

\* A circuit with one instance and a circuit with several.
C14_Witness ==
    /\ FirstRoundOk
    /\ \E c, d \in DOMAIN LastBatch :
           /\ LastBatch[c] = 1
           /\ LastBatch[d] = MaxInstances
           /\ Len(LastMessage.batch_combiners[d].instance_combiners) = MaxInstances

\* The elements of the last verifier_first_round are, in order: alpha, eta_b, eta_c,
\* then for each circuit in canonical order its non-first instance combiners
\* followed, for every circuit after the first, by its circuit combiner.
ExtractionOrder ==
    /\ vlast.squeezed = Len(vlast.elems)
    /\ fs_pos = vlast.squeezed
    /\ Len(vlast.elems) >= 3
    /\ LastMessage.alpha = vlast.elems[1]
    /\ LastMessage.eta_b = vlast.elems[2]
    /\ LastMessage.eta_c = vlast.elems[3]
    /\ \A j \in 1..Len(LastOrder) :
           LET combiners == LastMessage.batch_combiners[LastOrder[j]]
           IN  /\ \A k \in 2..Len(combiners.instance_combiners) :
                      LET pos == InstanceCombinerPosition(LastOrder, LastBatch, j, k)
                      IN  pos <= Len(vlast.elems)
                          /\ combiners.instance_combiners[k] = vlast.elems[pos]
               /\ j >= 2 =>
                      LET pos == CircuitCombinerPosition(LastOrder, LastBatch, j)
                      IN  pos <= Len(vlast.elems)
                          /\ combiners.circuit_combiner = vlast.elems[pos]

\* C20 as stated: a successful verifier_first_round extracts exactly
\* 3 + sum of (instance_count - 1) + (number_of_circuits - 1) elements, in the order
\* alpha, eta_b, eta_c, instance combiners and circuit combiner per circuit.
C20_ExtractionCount ==
    FirstRoundOk =>
        /\ vlast.squeezed
               = 3 + InstanceSum(LastOrder, LastBatch, Len(LastOrder)) + (Len(LastOrder) - 1)
        /\ ExtractionOrder

\* C20 amended: the count is 3 + sum of (instance_count - 1) + (number_of_circuits - 1)
\* for a batch of at least one circuit, and 3 for an empty batch; the order is as
\* stated.
C20_ExtractionCountNonEmpty ==
    FirstRoundOk =>
        /\ vlast.squeezed
               = 3 + InstanceSum(LastOrder, LastBatch, Len(LastOrder))
                   + (IF Len(LastOrder) >= 1 THEN Len(LastOrder) - 1 ELSE 0)
        /\ ExtractionOrder

\* Two circuits of two instances each: 3 + 2 + 1 elements.
C20_Witness ==
    /\ FirstRoundOk
    /\ Len(LastOrder) = 2
    /\ \A c \in DOMAIN LastBatch : LastBatch[c] = 2
    /\ vlast.squeezed = 6
    /\ vlast.elems[4] # vlast.elems[5]

\* x is a root of the vanishing polynomial of the constraint domain.
IsRoot(constraint_domain, x) == IsZero(EvaluateVanishingPolynomial(constraint_domain, x))

\* No State carries an alpha or a beta that is a root.
NoRootInState ==
    IsSome(vstate) =>
        LET state == Unwrap(vstate)
        IN  /\ IsSome(state.first_round_message)
            /\ ~IsRoot(state.constraint_domain, Unwrap(state.first_round_message).alpha)
            /\ IsSome(state.second_round_message) =>
                   ~IsRoot(state.constraint_domain, Unwrap(state.second_round_message).beta)

\* A round that extracted a root as its challenge returned neither message nor State.
RootYieldsNothing ==
    /\ (vlast'.op = "verifier_first_round" /\ vstate = None /\ Len(vlast'.elems) >= 1
        /\ EvaluationDomainNew(Unwrap(vlast'.index_info).num_constraints) # None
        /\ IsRoot(Unwrap(EvaluationDomainNew(Unwrap(vlast'.index_info).num_constraints)),
                  vlast'.elems[1]))
           => (vlast'.message = None /\ vstate' = None)
    /\ (vlast'.op = "verifier_second_round" /\ IsSome(vstate) /\ Len(vlast'.elems) >= 1
        /\ IsRoot(Unwrap(vstate).constraint_domain, vlast'.elems[1]))
           => (vlast'.message = None /\ vstate' = None)

\* C15: no State returned by verifier_first_round carries an alpha that is a root of
\* the constraint domain's vanishing polynomial and none returned by
\* verifier_second_round carries a beta that is one; a round whose extracted
\* challenge is a root returns neither a message nor a State.
C15_NoRootChallenge == []NoRootInState /\ [][RootYieldsNothing]_vars

\* verifier_second_round extracted a root as beta and returned nothing.
C15_Witness ==
    /\ vlast.op = "verifier_second_round"
    /\ Len(vlast.elems) = 1
    /\ IsRoot(1, vlast.elems[1])
    /\ vlast.message = None
    /\ vstate = None

\* C16: a protocol-invariant violation (alpha or beta a root, more than one
\* circuit-combiner slot) reaches the caller as a typed failure returned by the
\* round: no round call ends in a process abort.
C16_TypedFailures == vlast.result # "panic" /\ ~aborted

(***************************************************************************)
(* Claims about the proof checks (checked under SpecVerifyProof).          *)
(***************************************************************************)
VerifyOps == {"verify_execution_proof", "verify_fee_proof"}

\* The Execution or Fee of the last proof check.
Verified == tlast.args.value

\* The number of record-typed inputs of a transition.
RecordInputs(transition) ==
    Cardinality({i \in DOMAIN transition.inputs : transition.inputs[i] = "Record"})

\* The last call failed before it called Inclusion or the Key Batch Engine.
RejectedBeforeVerify ==
    tlast.result = "Err" /\ tlast.engine = <<>> /\ tlast.inclusion = ""

\* C17: verify_fee_proof rejects a Fee with the zero root, with no proof or with a
\* number of record inputs other than one, and verify_execution_proof rejects an
\* Execution with no proof, in each case before any verify call.
C17_RejectedBeforeVerify ==
    /\ (tlast.op = "verify_fee_proof"
        /\ (\/ Verified.global_state_root = DefaultStateRoot
            \/ Verified.proof = None
            \/ RecordInputs(Verified.transition) # 1))
           => RejectedBeforeVerify
    /\ (tlast.op = "verify_execution_proof" /\ Verified.proof = None)
           => RejectedBeforeVerify

\* A Fee with a proof and one record input, but the zero root, was rejected.
C17_Witness ==
    /\ tlast.op = "verify_fee_proof"
    /\ Verified.global_state_root = DefaultStateRoot
    /\ Verified.proof # None
    /\ RecordInputs(Verified.transition) = 1
    /\ RejectedBeforeVerify

\* C18: a proof check makes at most one verify call on the Key Batch Engine, for all
\* the verifier inputs at once, returns Ok only if that call answered true, and
\* otherwise returns one error and nothing else.
C18_AllOrNothing ==
    tlast.op \in VerifyOps =>
        /\ Len(tlast.engine) <= 1
        /\ \A i \in 1..Len(tlast.engine) :
               /\ DOMAIN tlast.args.verifier_inputs \subseteq DOMAIN tlast.engine[i].verifier_inputs
               /\ tlast.engine[i].locator = tlast.args.locator
        /\ tlast.result = "Ok" <=> (Len(tlast.engine) = 1 /\ tlast.engine[1].answer)
        /\ tlast.result \in {"Ok", "Err"}
        /\ tlast.result = "Err" <=> tlast.error # ""
        /\ tlast.value = None

\* An Execution of two circuits with inclusion inputs: one call, answered false.
C18_Witness ==
    /\ tlast.op = "verify_execution_proof"
    /\ Cardinality(DOMAIN tlast.args.verifier_inputs) = 2
    /\ Len(tlast.engine) = 1
    /\ Cardinality(DOMAIN tlast.engine[1].verifier_inputs) = 3
    /\ ~tlast.engine[1].answer
    /\ tlast.result = "Err"
    /\ tlast.error = "Execution is invalid - Failed to verify proof"

(***************************************************************************)
(* prepare and prepare_async (checked under SpecTrace).                    *)
(***************************************************************************)
\* C19: from every reachable Trace state, for every query and every Inclusion
\* result, prepare_async ends exactly where prepare would end, up to the names of
\* the call and of the Inclusion method: same path (fee or execution), same
\* success or failure and error, same final cells.
C19_PrepareAsyncAsPrepare ==
    \A query \in Queries, res \in InclusionAnswers :
        /\ ~ENABLED (PrepareAsync(query, res)
                     /\ ~Prepare("prepare_async", "_async", query, res))
        /\ ~ENABLED (Prepare("prepare_async", "_async", query, res)
                     /\ ~PrepareAsync(query, res))

\* prepare_async succeeded on a fee trace.
C19_Witness ==
    /\ tlast.op = "prepare_async"
    /\ tlast.result = "Ok"
    /\ tlast.inclusion = "prepare_fee_async"
    /\ Prepared

(***************************************************************************)
(* Rounds 2-4 and the query set (checked under SpecVerifier).              *)
(***************************************************************************)
\* The step is a call of op that extracted n elements from the transcript.
Extracted(op, n) ==
    /\ vlast'.op = op
    /\ vlast'.squeezed = n
    /\ Len(vlast'.elems) = n
    /\ fs_pos' = fs_pos + n

Proven == tlast.op \in ProveOps /\ tlast.result = "Ok"

\* C22: a successful prove_execution or prove_fee calls the Key Batch Engine once,
\* with a task map that holds every entry accumulated by insert_transition as it
\* was accumulated, and one more entry, under inclusion.aleo/state_path, if and
\* only if there are inclusion assignments.
C22_FullTaskMap ==
    Proven =>
        /\ Len(tlast.engine) = 1
        /\ \A locator \in DOMAIN transition_tasks :
               /\ locator \in DOMAIN Unwrap(tlast.engine).tasks
               /\ Unwrap(tlast.engine).tasks[locator].proving_key = transition_tasks[locator].proving_key
               /\ Unwrap(tlast.engine).tasks[locator].assignments = transition_tasks[locator].assignments
        /\ \A locator \in DOMAIN Unwrap(tlast.engine).tasks \ DOMAIN transition_tasks :
               locator = InclusionLocator
        /\ Unwrap(inclusion_assignments) # <<>> =>
               /\ InclusionLocator \in DOMAIN Unwrap(tlast.engine).tasks
               /\ InclusionLocator \notin DOMAIN transition_tasks
        /\ Unwrap(inclusion_assignments) = <<>> =>
               DOMAIN Unwrap(tlast.engine).tasks = DOMAIN transition_tasks

\* C23: every assignment stored under a Locator was supplied to insert_transition
\* together with the proving key stored for that Locator (ProvingTasks pairs each
\* assignment with the one key it is ever supplied with).
C23_AssignmentsUnderOwnKey ==
    \A locator \in DOMAIN transition_tasks :
        \A pos \in 1..Len(transition_tasks[locator].assignments) :
            <<transition_tasks[locator].proving_key, transition_tasks[locator].assignments[pos]>> \in ProvingTasks

\* The Locator of a transition of the list.
LocatorOf(transition) == LocatorNew(transition.program_id, transition.function_name)

\* The number of listed transitions with this Locator.
TransitionsUnder(locator) ==
    Cardinality({pos \in 1..Len(transitions) : LocatorOf(transitions[pos]) = locator})

\* The number of assignments over all Locators.
TotalAssignments ==
    Cardinality(UNION {{<<locator, pos>> : pos \in 1..Len(transition_tasks[locator].assignments)} :
                           locator \in DOMAIN transition_tasks})

\* The task map holds one assignment per listed transition, under its Locator.
TasksMatchTransitions ==
    /\ TotalAssignments = Len(transitions)
    /\ \A pos \in 1..Len(transitions) : LocatorOf(transitions[pos]) \in DOMAIN transition_tasks
    /\ \A locator \in DOMAIN transition_tasks :
           /\ transition_tasks[locator].assignments # <<>>
           /\ Len(transition_tasks[locator].assignments) = TransitionsUnder(locator)

\* C24: in every state of a Trace, the number of assignments over all Locators is
\* the number of listed transitions, every listed transition's Locator is a key
\* of the task map, no Locator maps to an empty list, and each Locator holds as
\* many assignments as there are listed transitions with it; no failing
\* insert_transition changes the transition list or the task map.
C24_TasksMatchTransitions ==
    /\ []TasksMatchTransitions
    /\ [][tlast'.op = "insert_transition" /\ tlast'.result = "Err" =>
              UNCHANGED <<transitions, transition_tasks>>]_vars

\* Two listed transitions share a Locator, and the last insert_transition failed.
C24_Witness ==
    /\ tlast.op = "insert_transition" /\ tlast.result = "Err"
    /\ Len(transitions) = 2
    /\ LocatorOf(transitions[1]) = LocatorOf(transitions[2])
    /\ Len(transition_tasks[LocatorOf(transitions[1])].assignments) = 2

(***************************************************************************)
(* The fee classification between prepare and prove (checked under         *)
(* SpecTrace).                                                             *)
(***************************************************************************)
\* The path recorded at prepare is the one is_fee() selects now, and a proof matches it.
FeeClassificationFixed ==
    /\ IsSome(selected_fee) <=> inclusion_assignments # None
    /\ IsSome(selected_fee) => Unwrap(selected_fee) = is_fee
    /\ Proven => IsSome(selected_fee) /\ Unwrap(selected_fee) = (tlast.op = "prove_fee")

\* C25: once a prepare has filled the inclusion assignments, is_fee() keeps the
\* value that selected the Inclusion path of that prepare, in every later state
\* and so at every later prove call; a proof returned by prove_fee comes from
\* assignments prepared on the fee path and one returned by prove_execution from
\* assignments prepared on the execution path; no prove call changes the Trace.
C25_FeeClassificationFixed ==
    /\ []FeeClassificationFixed
    /\ [][tlast'.op \in ProveOps =>
              UNCHANGED <<transitions, transition_tasks, inclusion_tasks, inclusion_assignments,
                          global_state_root>>]_vars

\* A fee has been proven from assignments prepared on the fee path.
C25_Witness ==
    /\ tlast.op = "prove_fee" /\ tlast.result = "Ok"
    /\ selected_fee = Some(TRUE)
    /\ is_fee

====
